---- MODULE Spec2Model ----
(***************************************************************************)
(* A model of create-stacks-dapp (src/src/index.ts, src/src/utils.ts,      *)
(* config.ts): the scaffolding run of main() as a state machine, with the  *)
(* validators and the manifest rewrite as operators on explicit data.      *)
(*                                                                         *)
(* Strings that the code inspects character by character (project names,   *)
(* prompt answers, argv entries) are tuples of one-character strings.      *)
(***************************************************************************)
EXTENDS Integers, Sequences, FiniteSets, TLC

VARIABLES
    argv,             \* process.argv.slice(2)
    env,              \* which external tools answer their --version probe
    dir0,             \* the target directory as it was when the run started
    dir,              \* the target directory now
    pc,               \* position of main()
    exitCode,         \* process exit code, NoExit while running
    projectName,      \* main: const projectName (<<>> while undefined)
    requirements,     \* main: const requirements
    templates,        \* main: const templates
    selectedTemplate, \* main: const selectedTemplate
    cloneResult,      \* main: const cloneResult
    installSuccess,   \* main: const installSuccess
    answer,           \* last line read by confirmAction
    line,             \* last line read by selectTemplate
    attempts,         \* number of lines read by selectTemplate
    steps,            \* the steps of main() entered so far, in order
    out,              \* Logger / spinner lines written so far
    cmds,             \* commands handed to execCommand so far
    prompts,          \* questions asked through askQuestion so far
    registry,         \* the template registry loadTemplates reads
    thrown,           \* the error main().catch received, NoError if none
    spinner,          \* setInterval timers of Spinner: active now, created so far
    nameArg,          \* argument of a stand-alone isValidProjectName call
    nameResult        \* its result

mainVars == <<argv, env, dir0, dir, pc, exitCode, projectName, requirements,
              templates, selectedTemplate, cloneResult, installSuccess,
              answer, line, attempts, steps, out, cmds, prompts,
              registry, thrown, spinner>>
nameVars == <<nameArg, nameResult>>
vars == <<argv, env, dir0, dir, pc, exitCode, projectName, requirements,
          templates, selectedTemplate, cloneResult, installSuccess,
          answer, line, attempts, steps, out, cmds, prompts,
          registry, thrown, spinner,
          nameArg, nameResult>>

----------------------------------------------------------------------------
(* Bounds of the model *)

MaxArgs == 2          \* longest argv explored
MaxNameLen == 3       \* longest exhaustively enumerated project name
MaxAttempts == 1      \* rejected lines explored in selectTemplate
MaxRegistry == 2      \* longest template registry explored

----------------------------------------------------------------------------
(* Characters and strings *)

Lower == <<"a","b","c","d","e","f","g","h","i","j","k","l","m",
           "n","o","p","q","r","s","t","u","v","w","x","y","z">>
Upper == <<"A","B","C","D","E","F","G","H","I","J","K","L","M",
           "N","O","P","Q","R","S","T","U","V","W","X","Y","Z">>
Digits == <<"0","1","2","3","4","5","6","7","8","9">>
Whitespace == {" ", "\t"}

Range(s) == {s[i] : i \in DOMAIN s}

IsLetter(c) == c \in Range(Lower) \cup Range(Upper)
IsDigit(c) == c \in Range(Digits)

\* String.prototype.toLowerCase, one character
ToLowerChar(c) ==
    IF c \in Range(Upper) THEN Lower[CHOOSE i \in DOMAIN Upper : Upper[i] = c]
    ELSE c

\* String.prototype.toLowerCase
ToLowerCase(s) == [i \in DOMAIN s |-> ToLowerChar(s[i])]

\* positions of the characters of s that are not white space
NonBlank(s) == {i \in DOMAIN s : s[i] \notin Whitespace}

\* String.prototype.trimStart
TrimStart(s) ==
    IF NonBlank(s) = {} THEN <<>>
    ELSE SubSeq(s, CHOOSE i \in NonBlank(s) : \A j \in NonBlank(s) : i <= j, Len(s))

\* String.prototype.trim
Trim(s) ==
    IF NonBlank(s) = {} THEN <<>>
    ELSE SubSeq(s, CHOOSE i \in NonBlank(s) : \A j \in NonBlank(s) : i <= j,
                   CHOOSE i \in NonBlank(s) : \A j \in NonBlank(s) : j <= i)

\* String.prototype.startsWith for a one-character prefix
StartsWith(s, c) == s # <<>> /\ s[1] = c

\* n copies of character c
Repeat(c, n) == [i \in 1..n |-> c]

\* all strings over alphabet A of length at most n
StringsUpTo(A, n) == UNION {[1..k -> A] : k \in 0..n}

----------------------------------------------------------------------------
(* CONFIG (config.ts) *)

MAX_PROJECT_NAME_LENGTH == 214

NodeModules == <<"n","o","d","e","_","m","o","d","u","l","e","s">>
FaviconIco == <<"f","a","v","i","c","o","n",".","i","c","o">>
PackageJson == <<"p","a","c","k","a","g","e",".","j","s","o","n">>
IndexJs == <<"i","n","d","e","x",".","j","s">>
IndexTs == <<"i","n","d","e","x",".","t","s">>

NodeModulesUpper == <<"N","O","D","E","_","M","O","D","U","L","E","S">>

RESERVED_NAMES == <<NodeModules, FaviconIco, PackageJson, IndexJs, IndexTs>>

----------------------------------------------------------------------------
(* Validation utilities *)

ReasonEmpty == "Project name cannot be empty"
ReasonLength == "Project name must be less than 214 characters"
ReasonStart == "Project name cannot start with . or _"
ReasonChars == "Project name can only contain letters, numbers, hyphens, and underscores"
ReasonReserved == "Project name cannot be a reserved name"
NoReason == "undefined"

\* the same pattern without the i flag: /^[a-z0-9-_]+$/.test(name)
NameRegexTestCaseSensitive(name) ==
    /\ name # <<>>
    /\ \A i \in DOMAIN name :
          name[i] \in Range(Lower) \/ IsDigit(name[i]) \/ name[i] \in {"-", "_"}

\* /^[a-z0-9-_]+$/i.test(name)
NameRegexTest(name) ==
    /\ name # <<>>
    /\ \A i \in DOMAIN name :
          IsLetter(name[i]) \/ IsDigit(name[i]) \/ name[i] \in {"-", "_"}

isValidProjectName(name) ==
    IF name = <<>> \/ Len(Trim(name)) = 0
    THEN [valid |-> FALSE, reason |-> ReasonEmpty]
    ELSE IF Len(name) > MAX_PROJECT_NAME_LENGTH
    THEN [valid |-> FALSE, reason |-> ReasonLength]
    ELSE IF StartsWith(name, ".") \/ StartsWith(name, "_")
    THEN [valid |-> FALSE, reason |-> ReasonStart]
    ELSE IF ~NameRegexTest(name)
    THEN [valid |-> FALSE, reason |-> ReasonChars]
    ELSE IF ToLowerCase(name) \in Range(RESERVED_NAMES)
    THEN [valid |-> FALSE, reason |-> ReasonReserved]
    ELSE [valid |-> TRUE, reason |-> NoReason]

----------------------------------------------------------------------------
(* Command line *)

OptH == <<"-","h">>
OptHelp == <<"-","-","h","e","l","p">>
OptL == <<"-","l">>
OptList == <<"-","-","l","i","s","t">>
OptF == <<"-","f">>
OptForce == <<"-","-","f","o","r","c","e">>
MyDapp == <<"m","y","-","d","a","p","p">>
DotEnv == <<".","e","n","v">>

ArgTokens == {OptH, OptHelp, OptL, OptList, OptF, OptForce, MyDapp, DotEnv}
Argvs == StringsUpTo(ArgTokens, MaxArgs)

\* args.includes(x)
Includes(args, x) == \E i \in DOMAIN args : args[i] = x

\* main's flags with the short aliases -h, -l, -f not recognised
FlagsLongOnly(args) ==
    [help  |-> Includes(args, OptHelp),
     list  |-> Includes(args, OptList),
     force |-> Includes(args, OptForce)]

\* main: const flags
Flags(args) ==
    [help  |-> Includes(args, OptHelp) \/ Includes(args, OptH),
     list  |-> Includes(args, OptList) \/ Includes(args, OptL),
     force |-> Includes(args, OptForce) \/ Includes(args, OptF)]

\* main: args.filter(arg => !arg.startsWith('-'))[0], <<>> when undefined
PositionalName(args) ==
    LET idx == {i \in DOMAIN args : ~StartsWith(args[i], "-")}
    IN IF idx = {} THEN <<>>
       ELSE args[CHOOSE i \in idx : \A j \in idx : i <= j]

----------------------------------------------------------------------------
(* Requirement prober *)

\* checkRequirements: const packageManagers, in declaration order
PackageManagers ==
    <<[name |-> "bun",  installCommand |-> "install", runCommand |-> ""],
      [name |-> "pnpm", installCommand |-> "install", runCommand |-> ""],
      [name |-> "yarn", installCommand |-> "install", runCommand |-> ""],
      [name |-> "npm",  installCommand |-> "install", runCommand |-> "run "]>>

PMNames == {PackageManagers[i].name : i \in DOMAIN PackageManagers}
NoPM == [name |-> "null", installCommand |-> "", runCommand |-> ""]

\* the machines a run may start on: which tools are installed
Envs == [node : BOOLEAN, git : BOOLEAN, pms : SUBSET PMNames,
         tty : BOOLEAN, ci : BOOLEAN]

\* Array.prototype.find over packageManagers, taken from the far end:
\* the last available candidate instead of the first
FindLastAvailable(pms) ==
    LET idx == {i \in DOMAIN PackageManagers : PackageManagers[i].name \in pms}
    IN IF idx = {} THEN NoPM
       ELSE PackageManagers[CHOOSE i \in idx : \A j \in idx : j <= i]

\* packageManagers.find(pm => pm.available) || null
FindAvailable(pms) ==
    LET idx == {i \in DOMAIN PackageManagers : PackageManagers[i].name \in pms}
    IN IF idx = {} THEN NoPM
       ELSE PackageManagers[CHOOSE i \in idx : \A j \in idx : i <= j]

\* execCommand(`${prog} ${arg}`, cwd, true) as recorded in cmds
Cmd(prog, arg, cwd) == [prog |-> prog, arg |-> arg, cwd |-> cwd]

\* the probes checkRequirements runs, in order
ProbeCmds ==
    <<Cmd("node", "--version", "."), Cmd("git", "--version", ".")>>
    \o [i \in DOMAIN PackageManagers |->
           Cmd(PackageManagers[i].name, "--version", ".")]

checkRequirements(e) ==
    [node |-> e.node, git |-> e.git, packageManager |-> FindAvailable(e.pms)]

NoRequirements == [node |-> FALSE, git |-> FALSE, packageManager |-> NoPM]

----------------------------------------------------------------------------
(* Template registry *)

ViteUrl == "https://github.com/leeroyanesu/vite-stacks-dapp-template.git"

\* the registry with a repoUrl that new URL() rejects
BuiltInTemplatesBadUrl ==
    <<[name |-> "Vite + React + Tailwind CSS",
       description |-> "Modern stacks starter dapp",
       repoUrl |-> "not a url"]>>

BUILT_IN_TEMPLATES ==
    <<[name |-> "Vite + React + Tailwind CSS",
       description |-> "Modern stacks starter dapp",
       repoUrl |-> ViteUrl]>>

\* new URL(s) does not throw
ParseableUrls == {ViteUrl}

\* validateTemplate without the new URL(...) attempt
validateTemplateNoUrlCheck(t) ==
    IF t.name = "" \/ t.description = "" \/ t.repoUrl = ""
    THEN [valid |-> FALSE, reason |-> "Template must have name, description, and repoUrl"]
    ELSE [valid |-> TRUE, reason |-> NoReason]

validateTemplate(t) ==
    IF t.name = "" \/ t.description = "" \/ t.repoUrl = ""
    THEN [valid |-> FALSE, reason |-> "Template must have name, description, and repoUrl"]
    ELSE IF t.repoUrl \notin ParseableUrls
    THEN [valid |-> FALSE, reason |-> "Template repoUrl must be a valid URL"]
    ELSE [valid |-> TRUE, reason |-> NoReason]

\* Array.prototype.filter(validateTemplate(...).valid)
RECURSIVE FilterValid(_)
FilterValid(reg) ==
    IF reg = <<>> THEN <<>>
    ELSE IF validateTemplate(Head(reg)).valid
         THEN <<Head(reg)>> \o FilterValid(Tail(reg))
         ELSE FilterValid(Tail(reg))

\* loadTemplates: throws CLIError('No valid templates found', 'NO_TEMPLATES')
loadTemplates(reg) ==
    LET validTemplates == FilterValid(reg)
    IN IF Len(validTemplates) = 0
       THEN [threw |-> TRUE, value |-> <<>>]
       ELSE [threw |-> FALSE, value |-> validTemplates]

NoTemplate == [name |-> "", description |-> "", repoUrl |-> ""]

----------------------------------------------------------------------------
(* Interactive prompt layer *)

\* lines a user may type at the overwrite confirmation
Answers ==
    {<<"y">>, <<" ","Y","E","S"," ">>, <<"Y","e","s">>,
     <<>>, <<"n">>, <<"y","e">>, <<"y","e","s","s">>, <<"y"," ","e","s">>,
     <<"o","k">>}

\* confirmAction's return expression compared with 'y' alone
confirmActionOnlyY(a) == Trim(ToLowerCase(a)) = <<"y">>

\* confirmAction: answer.toLowerCase().trim() === 'y' || ... === 'yes'
confirmAction(a) ==
    \/ Trim(ToLowerCase(a)) = <<"y">>
    \/ Trim(ToLowerCase(a)) = <<"y","e","s">>

DigitVal(c) == (CHOOSE i \in DOMAIN Digits : Digits[i] = c) - 1

RECURSIVE DigitPrefixVal(_, _)
DigitPrefixVal(s, acc) ==
    IF s # <<>> /\ IsDigit(s[1])
    THEN DigitPrefixVal(Tail(s), 10 * acc + DigitVal(s[1]))
    ELSE acc

\* parseInt that skips the sign without applying it
parseIntUnsigned(s) ==
    LET t == TrimStart(s)
        u == IF StartsWith(t, "-") \/ StartsWith(t, "+") THEN Tail(t) ELSE t
    IN IF u = <<>> \/ ~IsDigit(u[1])
       THEN [nan |-> TRUE, val |-> 0]
       ELSE [nan |-> FALSE, val |-> DigitPrefixVal(u, 0)]

\* parseInt(s, 10): leading white space and a sign are skipped, the longest
\* digit prefix is converted, anything after it is ignored
parseInt(s) ==
    LET t == TrimStart(s)
        neg == StartsWith(t, "-")
        u == IF StartsWith(t, "-") \/ StartsWith(t, "+") THEN Tail(t) ELSE t
    IN IF u = <<>> \/ ~IsDigit(u[1])
       THEN [nan |-> TRUE, val |-> 0]
       ELSE [nan |-> FALSE,
             val |-> IF neg THEN 0 - DigitPrefixVal(u, 0) ELSE DigitPrefixVal(u, 0)]

\* lines a user may type at the template menu
Lines == {<<"1">>, <<"2">>, <<"0">>, <<"x">>, <<>>}

\* selectTemplate: choice >= 1 && choice <= templates.length
ChoiceInRange(l, n) ==
    LET choice == parseInt(Trim(l))
    IN ~choice.nan /\ choice.val >= 1 /\ choice.val <= n

----------------------------------------------------------------------------
(* The package manifest.  A parsed JSON object is a function from its keys *)
(* to their values; a file is absent, unparseable, or holds a JSON value.  *)

TemplateName == <<"t","p","l">>

EmptyObject == <<>>

\* obj[k] = v
SetKey(obj, k, v) == [x \in (DOMAIN obj) \cup {k} |-> IF x = k THEN v ELSE obj[x]]

\* delete obj[k]
DeleteKey(obj, k) == [x \in (DOMAIN obj) \ {k} |-> obj[x]]

HasKey(obj, k) == k \in DOMAIN obj

\* the values a script entry takes; the empty string is falsy in JavaScript
ScriptValues == {"", "node scripts/setup.js"}
Truthy(v) == v # ""

Opt(S) == {[has |-> FALSE, val |-> CHOOSE v \in S : TRUE]} \cup [has : {TRUE}, val : S]

Put(o, k) == IF o.has THEN k :> o.val ELSE EmptyObject

ScriptObjects ==
    {Put(d, "dev") @@ Put(p, "postinstall") :
        d \in Opt({"vite"}), p \in Opt(ScriptValues)}

ManifestObjects ==
    {Put(n, "name") @@ Put(v, "version") @@ Put(s, "scripts") @@ Put(d, "dependencies") :
        n \in Opt({TemplateName}), v \in Opt({"1.4.2"}),
        s \in Opt(ScriptObjects), d \in Opt({"react"})}

AbsentFile == [kind |-> "absent", obj |-> EmptyObject]
GarbageFile == [kind |-> "garbage", obj |-> EmptyObject]
NullFile == [kind |-> "null", obj |-> EmptyObject]
ArrayFile == [kind |-> "array", obj |-> EmptyObject]
ObjectFile(o) == [kind |-> "object", obj |-> o]

Files ==
    {AbsentFile, GarbageFile, NullFile, ArrayFile}
    \cup {ObjectFile(o) : o \in ManifestObjects}

\* fs.writeFileSync: succeeds, throws before touching the file, or throws
\* after truncating it
WriteOutcomes == {"ok", "throwsUntouched", "throwsTruncated"}

L(msg, arg) == [msg |-> msg, arg |-> arg]

\* the in-memory edits of updatePackageJson with the truthiness test on
\* scripts.postinstall dropped and the whole scripts object deleted
EditManifestDropScripts(packageJson, name) ==
    LET named == SetKey(SetKey(packageJson, "name", name), "version", "0.1.0")
    IN IF HasKey(named, "scripts") THEN DeleteKey(named, "scripts") ELSE named

\* the in-memory edits of updatePackageJson (index.ts 252-258)
EditManifest(packageJson, name) ==
    LET named == SetKey(SetKey(packageJson, "name", name), "version", "0.1.0")
    IN IF /\ HasKey(named, "scripts")
          /\ HasKey(named.scripts, "postinstall")
          /\ Truthy(named.scripts.postinstall)
       THEN SetKey(named, "scripts", DeleteKey(named.scripts, "postinstall"))
       ELSE named

\* updatePackageJson: the file afterwards, the value returned, the line logged
updatePackageJson(file, name, write) ==
    IF file.kind = "absent"
    THEN [file |-> file, result |-> FALSE,
          log |-> L("warning", "No package.json found in template")]
    ELSE IF file.kind \in {"garbage", "null"}
    \* JSON.parse throws, or assigning a property of null throws
    THEN [file |-> file, result |-> FALSE,
          log |-> L("error", "Failed to update package.json")]
    ELSE IF write # "ok"
    THEN [file |-> IF write = "throwsTruncated" THEN GarbageFile ELSE file,
          result |-> FALSE,
          log |-> L("error", "Failed to update package.json")]
    ELSE IF file.kind = "array"
    \* properties set on an array are not serialised by JSON.stringify
    THEN [file |-> file, result |-> TRUE,
          log |-> L("success", "Updated package.json")]
    ELSE [file |-> ObjectFile(EditManifest(file.obj, name)), result |-> TRUE,
          log |-> L("success", "Updated package.json")]

----------------------------------------------------------------------------
(* The target directory *)

AbsentDir == [state |-> "absent", dotgit |-> "none", file |-> AbsentFile, installed |-> FALSE]
UserDir == [state |-> "user", dotgit |-> "none", file |-> AbsentFile, installed |-> FALSE]
PartialDir == [state |-> "partial", dotgit |-> "none", file |-> AbsentFile, installed |-> FALSE]
ClonedDir(f, g) == [state |-> "cloned", dotgit |-> g, file |-> f, installed |-> FALSE]

\* fs.existsSync(projectPath)
Exists(d) == d.state # "absent"

\* the manifests a clone delivers in a full run
ClonedFiles ==
    {AbsentFile, GarbageFile,
     ObjectFile(("name" :> TemplateName) @@ ("version" :> "1.4.2")
                @@ ("scripts" :> (("dev" :> "vite") @@ ("postinstall" :> "node scripts/setup.js"))))}

----------------------------------------------------------------------------
(* Error handling (utils.ts) *)

NoExit == -1

\* handleError with process.exit(1) in the CLIError branch too
handleErrorExitsOne(err) ==
    IF err.class = "CLIError"
    THEN [out |-> <<L("error", err.message)>>
                  \o (IF err.code # "GENERAL_ERROR" THEN <<L("dim", err.code)>> ELSE <<>>),
          exitCode |-> 1]
    ELSE IF err.class = "Error"
    THEN [out |-> <<L("error", "An unexpected error occurred"), L("dim", "report")>>,
          exitCode |-> 1]
    ELSE [out |-> <<L("error", "An unknown error occurred")>>, exitCode |-> 1]

\* handleError: the lines printed and the exit code
handleError(err) ==
    IF err.class = "CLIError"
    THEN [out |-> <<L("error", err.message)>>
                  \o (IF err.code # "GENERAL_ERROR" THEN <<L("dim", err.code)>> ELSE <<>>),
          exitCode |-> err.exitCode]
    ELSE IF err.class = "Error"
    THEN [out |-> <<L("error", "An unexpected error occurred"), L("dim", "report")>>,
          exitCode |-> 1]
    ELSE [out |-> <<L("error", "An unknown error occurred")>>, exitCode |-> 1]

NoTemplatesError ==
    [class |-> "CLIError", message |-> "No valid templates found",
     code |-> "NO_TEMPLATES", exitCode |-> 1]

NoError == [class |-> "none", message |-> "", code |-> "", exitCode |-> 0]

----------------------------------------------------------------------------
(* Progress reporter *)

\* isInteractive (config.ts): process.stdout.isTTY && !isCI()
isInteractive(e) == e.tty /\ ~e.ci

NoTimers == [active |-> 0, created |-> 0]

\* Spinner.start: this.interval afterwards (TRUE: a timer is set)
SpinnerStart(interval, e) == IF ~isInteractive(e) THEN interval ELSE TRUE

\* Spinner.stop with clearInterval left out
SpinnerStopLeaves(interval) == interval

\* Spinner.stop: this.interval afterwards
SpinnerStop(interval) == FALSE

\* a step that does new Spinner(), start(...) and, on the path it returns
\* by, stop(...): the timers afterwards
WithSpinner(sp, e) ==
    LET started == SpinnerStart(FALSE, e)
        stopped == SpinnerStop(started)
    IN [active  |-> sp.active + (IF stopped THEN 1 ELSE 0),
        created |-> sp.created + (IF started THEN 1 ELSE 0)]

----------------------------------------------------------------------------
(* main(): one action per step of the flow *)

Running == pc \notin {"exited", "done"}

Init ==
    /\ argv \in Argvs
    /\ env \in Envs
    /\ dir0 \in {AbsentDir, UserDir}
    /\ dir = dir0
    /\ pc = "start"
    /\ exitCode = NoExit
    /\ projectName = <<>>
    /\ requirements = NoRequirements
    /\ templates = <<>>
    /\ selectedTemplate = NoTemplate
    /\ cloneResult = [success |-> FALSE, error |-> "undefined"]
    /\ installSuccess = FALSE
    /\ answer = <<>>
    /\ line = <<>>
    /\ attempts = 0
    /\ steps = <<>>
    /\ out = <<>>
    /\ cmds = <<>>
    /\ prompts = 0
    /\ registry = BUILT_IN_TEMPLATES
    /\ thrown = NoError
    /\ spinner = NoTimers
    /\ nameArg = <<>>
    /\ nameResult = [valid |-> FALSE, reason |-> NoReason]

\* the statements of main() in the order in which they are written
MainOrder ==
    <<"start", "probe", "load", "name", "collision", "select", "clone",
      "manifest", "install", "gitinit", "summary">>

Successor(order, step) ==
    order[(CHOOSE i \in DOMAIN order : order[i] = step) + 1]

\* main() with the manifest rewrite left out
AfterWithoutManifest(step) ==
    Successor(SelectSeq(MainOrder, LAMBDA p : p # "manifest"), step)

\* the step main() runs when the given step has finished without exiting
After(step) == Successor(MainOrder, step)

\* process.exit(code) after printing lines
Exit(code, lines) ==
    /\ pc' = "exited"
    /\ exitCode' = code
    /\ out' = out \o lines

\* fall through to the next step after printing lines
Goto(next, lines) ==
    /\ pc' = next
    /\ exitCode' = exitCode
    /\ out' = out \o lines

\* main 352-375: parse the flags, show help
ParseArgs ==
    /\ pc = "start"
    /\ steps' = Append(steps, "parse")
    /\ IF Flags(argv).help
       THEN Exit(0, <<L("info", "usage")>>)
       ELSE Goto(After("start"), <<>>)
    /\ UNCHANGED <<argv, env, dir0, dir, projectName, requirements, templates,
                   selectedTemplate, cloneResult, installSuccess, answer, line,
                   attempts, cmds, prompts, nameVars, registry, thrown, spinner>>

\* the order of main's three checks with git looked at before node
FirstMissingGitFirst(req) ==
    IF ~req.git THEN "git"
    ELSE IF ~req.node THEN "node"
    ELSE IF req.packageManager = NoPM THEN "packageManager"
    ELSE "none"

\* main 380-396: the first prerequisite found absent, in the order checked
FirstMissing(req) ==
    IF ~req.node THEN "node"
    ELSE IF ~req.git THEN "git"
    ELSE IF req.packageManager = NoPM THEN "packageManager"
    ELSE "none"

MissingLines(m) ==
    IF m = "node"
    THEN <<L("error", "Node.js is required but not found"), L("warning", "install Node.js")>>
    ELSE IF m = "git"
    THEN <<L("error", "Git is required but not found"), L("warning", "install Git")>>
    ELSE <<L("error", "No package manager found"), L("warning", "install a package manager")>>

SpinnerLines(startText, stopKind, stopText) ==
    <<L("spinner", startText), L(stopKind, stopText)>>

\* main 377-396: checkRequirements and the three fatal checks
CheckRequirements ==
    /\ pc = "probe"
    /\ steps' = Append(steps, "probe")
    /\ cmds' = cmds \o ProbeCmds
    /\ requirements' = checkRequirements(env)
    /\ LET spin == SpinnerLines("Checking system requirements...",
                                "success", "System requirements checked")
           m == FirstMissing(requirements')
       IN IF m # "none"
          THEN Exit(1, spin \o MissingLines(m))
          ELSE Goto(After("probe"), spin)
    /\ spinner' = WithSpinner(spinner, env)
    /\ UNCHANGED <<argv, env, dir0, dir, projectName, templates,
                   selectedTemplate, cloneResult, installSuccess, answer, line,
                   attempts, prompts, nameVars, registry, thrown>>

ListLines(ts) == [i \in DOMAIN ts |-> L("list", ts[i].name)]

\* loadTemplates 187-189: a warning for each entry that is dropped
RECURSIVE SkipLines(_)
SkipLines(reg) ==
    IF reg = <<>> THEN <<>>
    ELSE (IF validateTemplate(Head(reg)).valid THEN <<>>
          ELSE <<L("skipped", validateTemplate(Head(reg)).reason)>>)
         \o SkipLines(Tail(reg))

\* main 398-412: loadTemplates, list templates; 491-493: an error thrown
\* by loadTemplates rejects main() and reaches handleError
LoadTemplates ==
    /\ pc = "load"
    /\ steps' = Append(steps, "load")
    /\ LET r == loadTemplates(registry)
       IN IF r.threw
          THEN /\ templates' = templates
               /\ thrown' = NoTemplatesError
               /\ Exit(handleError(NoTemplatesError).exitCode,
                       SkipLines(registry) \o handleError(NoTemplatesError).out)
          ELSE /\ templates' = r.value
               /\ thrown' = thrown
               /\ IF Flags(argv).list
                  THEN Exit(0, SkipLines(registry) \o ListLines(r.value))
                  ELSE Goto(After("load"), SkipLines(registry))
    /\ UNCHANGED <<argv, env, dir0, dir, projectName, requirements,
                   selectedTemplate, cloneResult, installSuccess, answer, line,
                   attempts, cmds, prompts, nameVars, registry, spinner>>

\* main 414-430: the project name and its validation
ValidateName ==
    /\ pc = "name"
    /\ steps' = Append(steps, "name")
    /\ projectName' = PositionalName(argv)
    /\ IF projectName' = <<>>
       THEN Exit(1, <<L("error", "Please provide a project name")>>)
       ELSE IF ~isValidProjectName(projectName').valid
       THEN Exit(1, <<L("error", isValidProjectName(projectName').reason)>>)
       ELSE Goto(After("name"), <<L("info", "welcome")>>)
    /\ UNCHANGED <<argv, env, dir0, dir, requirements, templates,
                   selectedTemplate, cloneResult, installSuccess, answer, line,
                   attempts, cmds, prompts, nameVars, registry, thrown, spinner>>

\* main 432-441: the target exists; remove it under --force, else ask
HandleCollision ==
    /\ pc = "collision"
    /\ steps' = Append(steps, "collision")
    /\ IF Exists(dir)
       THEN IF Flags(argv).force
            THEN /\ dir' = AbsentDir
                 /\ prompts' = prompts
                 /\ Goto(After("collision"), <<L("success", "Removed existing directory")>>)
            ELSE /\ dir' = dir
                 /\ prompts' = prompts + 1
                 /\ Goto("confirm", <<L("error", "Directory already exists"),
                                      L("question", "Do you want to remove it and continue?")>>)
       ELSE /\ dir' = dir
            /\ prompts' = prompts
            /\ Goto(After("collision"), <<>>)
    /\ UNCHANGED <<argv, env, dir0, projectName, requirements, templates,
                   selectedTemplate, cloneResult, installSuccess, answer, line,
                   attempts, cmds, nameVars, registry, thrown, spinner>>

\* main 441-449 with confirmAction 346-348: the line typed at the question
ConfirmAnswer ==
    /\ pc = "confirm"
    /\ \E a \in Answers :
         /\ answer' = a
         /\ IF confirmAction(a)
            THEN /\ dir' = AbsentDir
                 /\ Goto(After("collision"), <<L("success", "Removed existing directory")>>)
            ELSE /\ dir' = dir
                 /\ Exit(1, <<L("error", "Aborted")>>)
    /\ UNCHANGED <<argv, env, dir0, projectName, requirements, templates,
                   selectedTemplate, cloneResult, installSuccess, line,
                   attempts, steps, cmds, prompts, nameVars, registry, thrown, spinner>>

MenuLines(ts) == [i \in DOMAIN ts |-> L("menu", ts[i].name)]

\* selectTemplate 312-331: print the menu, ask for a choice
SelectTemplateMenu ==
    /\ pc = "select"
    /\ steps' = Append(steps, "select")
    /\ prompts' = prompts + 1
    /\ Goto("choose", MenuLines(templates) \o <<L("question", "Enter your choice")>>)
    /\ UNCHANGED <<argv, env, dir0, dir, projectName, requirements, templates,
                   selectedTemplate, cloneResult, installSuccess, answer, line,
                   attempts, cmds, nameVars, registry, thrown, spinner>>

\* selectTemplate 333-341 and main 456: the line typed at the menu, drawn
\* from the set S of lines
SelectTemplateChoiceFrom(S) ==
    /\ pc = "choose"
    /\ \E l \in S :
         /\ line' = l
         /\ IF ChoiceInRange(l, Len(templates))
            THEN /\ selectedTemplate' = templates[parseInt(Trim(l)).val]
                 /\ attempts' = attempts
                 /\ prompts' = prompts
                 /\ Goto(After("select"), <<L("info", "Creating project")>>)
            ELSE /\ attempts < MaxAttempts
                 /\ selectedTemplate' = selectedTemplate
                 /\ attempts' = attempts + 1
                 /\ prompts' = prompts + 1
                 /\ Goto("choose", <<L("error", "Invalid choice"),
                                     L("question", "Enter your choice")>>)
    /\ UNCHANGED <<argv, env, dir0, dir, projectName, requirements, templates,
                   cloneResult, installSuccess, answer, steps, cmds, nameVars, registry, thrown, spinner>>

SelectTemplateChoice == SelectTemplateChoiceFrom(Lines)

\* cloneTemplate 216-240: the value returned and the spinner's closing line
cloneTemplate(cloneOk, gitExists, rmOk) ==
    IF ~cloneOk
    THEN [success |-> FALSE, error |-> "Failed to clone repository",
          spin |-> L("error", "Failed to clone repository")]
    ELSE IF gitExists /\ ~rmOk
    THEN [success |-> FALSE, error |-> "Failed to remove .git folder",
          spin |-> L("error", "Template cloned but failed to clean git history")]
    ELSE [success |-> TRUE, error |-> "undefined",
          spin |-> L("success", "Template cloned successfully")]

\* main's test of cloneResult replaced by one that never aborts
CloneFatalNever(res) == FALSE

\* main 460: if (!cloneResult.success)
CloneFatal(res) == ~res.success

\* main 458-464 with cloneTemplate
CloneTemplate ==
    /\ pc = "clone"
    /\ steps' = Append(steps, "clone")
    /\ cmds' = Append(cmds, Cmd("git", "clone --depth 1", "."))
    /\ \E cloneOk \in BOOLEAN, partial \in BOOLEAN, gitExists \in BOOLEAN,
          rmOk \in BOOLEAN, f \in ClonedFiles :
         LET res == cloneTemplate(cloneOk, gitExists, rmOk)
             spin == <<L("spinner", "Cloning template repository..."), res.spin>>
         IN /\ dir' = IF ~cloneOk
                      THEN (IF partial THEN PartialDir ELSE dir)
                      ELSE ClonedDir(f, IF gitExists /\ ~rmOk THEN "template" ELSE "none")
            /\ cloneResult' = [success |-> res.success, error |-> res.error]
            /\ IF CloneFatal(res)
               THEN Exit(1, spin \o <<L("error", res.error),
                                      L("warning", "Check if the repository exists")>>)
               ELSE Goto(After("clone"), spin)
    /\ spinner' = WithSpinner(spinner, env)
    /\ UNCHANGED <<argv, env, dir0, projectName, requirements, templates,
                   selectedTemplate, installSuccess, answer, line, attempts,
                   prompts, nameVars, registry, thrown>>

\* main aborting when updatePackageJson returns false
ManifestFatalOnFailure(result) == ~result

\* main 467: the value of updatePackageJson is discarded, no result aborts
ManifestFatal(result) == FALSE

\* main 466-467 with updatePackageJson
UpdatePackageJson ==
    /\ pc = "manifest"
    /\ steps' = Append(steps, "manifest")
    /\ \E w \in WriteOutcomes :
         LET r == updatePackageJson(dir.file, projectName, w)
         IN /\ dir' = [dir EXCEPT !.file = r.file]
            /\ IF ManifestFatal(r.result)
               THEN Exit(1, <<r.log>>)
               ELSE Goto(After("manifest"), <<r.log>>)
    /\ UNCHANGED <<argv, env, dir0, projectName, requirements, templates,
                   selectedTemplate, cloneResult, installSuccess, answer, line,
                   attempts, cmds, prompts, nameVars, registry, thrown, spinner>>

\* main 469-470 with installDependencies
InstallDependencies ==
    /\ pc = "install"
    /\ steps' = Append(steps, "install")
    /\ cmds' = Append(cmds, Cmd(requirements.packageManager.name,
                                requirements.packageManager.installCommand, "project"))
    /\ \E ok \in BOOLEAN :
         /\ installSuccess' = ok
         /\ dir' = [dir EXCEPT !.installed = ok]
         /\ Goto(After("install"),
                 <<L("info", "Installing dependencies..."),
                   L("dim", requirements.packageManager.name),
                   L("spinner", "Installing dependencies")>>
                 \o (IF ok THEN <<L("success", "Dependencies installed successfully")>>
                     ELSE <<L("error", "Failed to install dependencies"),
                            L("warning", "You can install them manually later")>>))
    /\ spinner' = WithSpinner(spinner, env)
    /\ UNCHANGED <<argv, env, dir0, projectName, requirements, templates,
                   selectedTemplate, cloneResult, answer, line, attempts,
                   prompts, nameVars, registry, thrown>>

\* initializeGitRepository: const commands
GitCommands == <<"init", "add .", "commit -m">>

\* the state of .git after the first n commands succeeded
DotGitAfter(before, n) ==
    IF n = 0 THEN before
    ELSE IF n = 1 THEN "init"
    ELSE IF n = 2 THEN "staged"
    ELSE "committed"

\* the loop of initializeGitRepository without the return on failure:
\* every command is run
CommandsRunAll(failAt) == Len(GitCommands)

\* initializeGitRepository 298-305: the number of commands run when the
\* failAt-th is the first to fail (failAt = 0: none fails)
CommandsRun(failAt) == IF failAt = 0 THEN Len(GitCommands) ELSE failAt

\* main 472-473 with initializeGitRepository; failAt = 0: no command fails
InitializeGitRepository ==
    /\ pc = "gitinit"
    /\ steps' = Append(steps, "gitinit")
    /\ \E failAt \in 0..Len(GitCommands) :
         LET ran == CommandsRun(failAt)
             succeeded == IF failAt = 0 THEN Len(GitCommands) ELSE failAt - 1
         IN /\ cmds' = cmds \o [i \in 1..ran |-> Cmd("git", GitCommands[i], "project")]
            /\ dir' = [dir EXCEPT !.dotgit = DotGitAfter(dir.dotgit, succeeded)]
            /\ Goto(After("gitinit"),
                    <<L("spinner", "Initializing git repository...")>>
                    \o (IF failAt = 0
                        THEN <<L("success", "Git repository initialized")>>
                        ELSE <<L("error", "Failed to initialize git repository"),
                               L("warning", GitCommands[failAt])>>))
    /\ spinner' = WithSpinner(spinner, env)
    /\ UNCHANGED <<argv, env, dir0, projectName, requirements, templates,
                   selectedTemplate, cloneResult, installSuccess, answer, line,
                   attempts, prompts, nameVars, registry, thrown>>

\* the summary printing the manual-install note whatever the install did
ShowManualAlways(success) == TRUE

\* main 481: if (!installSuccess)
ShowManual(success) == ~success

\* main 475-489: the success message; main returns and the process ends
Summary ==
    /\ pc = "summary"
    /\ steps' = Append(steps, "summary")
    /\ pc' = "done"
    /\ exitCode' = 0
    /\ out' = out
              \o <<L("info", "Success! Your Stacks dapp is ready!"),
                   L("next", "cd"),
                   L("next", requirements.packageManager.name)>>
              \o (IF ShowManual(installSuccess)
                  THEN <<L("warning", "Dependencies failed to install"),
                         L("manual", requirements.packageManager.name)>>
                  ELSE <<>>)
              \o <<L("info", selectedTemplate.name)>>
    /\ UNCHANGED <<argv, env, dir0, dir, projectName, requirements, templates,
                   selectedTemplate, cloneResult, installSuccess, answer, line,
                   attempts, cmds, prompts, nameVars, registry, thrown, spinner>>

Next ==
    \/ ParseArgs
    \/ CheckRequirements
    \/ LoadTemplates
    \/ ValidateName
    \/ HandleCollision
    \/ ConfirmAnswer
    \/ SelectTemplateMenu
    \/ SelectTemplateChoice
    \/ CloneTemplate
    \/ UpdatePackageJson
    \/ InstallDependencies
    \/ InitializeGitRepository
    \/ Summary

Spec == Init /\ [][Next]_vars

TypeOK ==
    /\ pc \in {"start", "probe", "load", "name", "collision", "confirm", "select",
               "choose", "clone", "manifest", "install", "gitinit", "summary",
               "done", "exited"}
    /\ exitCode \in {NoExit, 0, 1}
    /\ attempts \in 0..MaxAttempts

----------------------------------------------------------------------------
(* Stand-alone calls of isValidProjectName *)

NameAlphabet == {"a", "Z", "7", "-", "_", ".", " ", "!"}

MyApp1 == <<"m","y","-","a","p","p","_","1">>

LongNames ==
    {Repeat("a", MAX_PROJECT_NAME_LENGTH - 1),
     Repeat("a", MAX_PROJECT_NAME_LENGTH),
     Repeat("a", MAX_PROJECT_NAME_LENGTH + 1),
     Repeat(".", MAX_PROJECT_NAME_LENGTH + 1),
     Repeat("!", MAX_PROJECT_NAME_LENGTH + 1),
     Repeat(" ", MAX_PROJECT_NAME_LENGTH + 1)}

Names ==
    StringsUpTo(NameAlphabet, MaxNameLen)
    \cup LongNames
    \cup {MyApp1, MyDapp, <<"\t">>, <<"a", "\t">>,
          NodeModules, NodeModulesUpper,
          <<"N","o","d","e","_","M","o","d","u","l","e","s">>,
          FaviconIco, PackageJson, IndexJs, IndexTs,
          <<"n","o","d","e","_","m","o","d","u","l","e">>}

Pending == [valid |-> FALSE, reason |-> "pending"]

\* the flow of main() is not running
MainIdle ==
    /\ argv = <<>>
    /\ env = [node |-> TRUE, git |-> TRUE, pms |-> PMNames, tty |-> TRUE, ci |-> FALSE]
    /\ dir0 = AbsentDir
    /\ dir = AbsentDir
    /\ pc = "idle"
    /\ exitCode = NoExit
    /\ projectName = <<>>
    /\ requirements = NoRequirements
    /\ templates = <<>>
    /\ selectedTemplate = NoTemplate
    /\ cloneResult = [success |-> FALSE, error |-> "undefined"]
    /\ installSuccess = FALSE
    /\ answer = <<>>
    /\ line = <<>>
    /\ attempts = 0
    /\ steps = <<>>
    /\ out = <<>>
    /\ cmds = <<>>
    /\ prompts = 0
    /\ registry = BUILT_IN_TEMPLATES
    /\ thrown = NoError
    /\ spinner = NoTimers

InitName ==
    /\ MainIdle
    /\ nameArg \in Names
    /\ nameResult = Pending

\* a call isValidProjectName(nameArg)
CallIsValidProjectName ==
    /\ nameResult = Pending
    /\ nameResult' = isValidProjectName(nameArg)
    /\ UNCHANGED <<nameArg, mainVars>>

NextName == CallIsValidProjectName

SpecName == InitName /\ [][NextName]_vars

----------------------------------------------------------------------------
(* updatePackageJson on every manifest of the data model *)

ProjectNames == {MyDapp, TemplateName, MyApp1}

\* the states in which main() reaches updatePackageJson: a clone that
\* succeeded, holding any manifest file
InitManifest ==
    /\ argv \in {<<n>> : n \in ProjectNames}
    /\ env = [node |-> TRUE, git |-> TRUE, pms |-> PMNames, tty |-> TRUE, ci |-> FALSE]
    /\ dir0 = AbsentDir
    /\ dir \in {ClonedDir(f, "none") : f \in Files}
    /\ pc = "manifest"
    /\ exitCode = NoExit
    /\ projectName = PositionalName(argv)
    /\ requirements = checkRequirements(env)
    /\ templates = loadTemplates(BUILT_IN_TEMPLATES).value
    /\ selectedTemplate = templates[1]
    /\ cloneResult = [success |-> TRUE, error |-> "undefined"]
    /\ installSuccess = FALSE
    /\ answer = <<>>
    /\ line = <<"1">>
    /\ attempts = 0
    /\ steps = <<"parse", "probe", "load", "name", "collision", "select", "clone">>
    /\ out = <<>>
    /\ cmds = ProbeCmds \o <<Cmd("git", "clone --depth 1", ".")>>
    /\ prompts = 1
    /\ registry = BUILT_IN_TEMPLATES
    /\ thrown = NoError
    /\ spinner = [active |-> 0, created |-> 2]
    /\ nameArg = <<>>
    /\ nameResult = [valid |-> FALSE, reason |-> NoReason]

NextManifest == UpdatePackageJson

SpecManifest == InitManifest /\ [][NextManifest]_vars

----------------------------------------------------------------------------
(* Properties *)

InSteps(x) == \E i \in DOMAIN steps : steps[i] = x
InOut(e) == \E i \in DOMAIN out : out[i] = e
Count(e) == Cardinality({i \in DOMAIN out : out[i] = e})
IsError(e) == e.msg = "error"
ErrorsReported == SelectSeq(out, IsError)
Ran(prog, cwd) == \E i \in DOMAIN cmds : cmds[i].prog = prog /\ cmds[i].cwd = cwd

HelpGiven == \E i \in DOMAIN argv : argv[i] \in {OptH, OptHelp}
ListGiven == \E i \in DOMAIN argv : argv[i] \in {OptL, OptList}
ForceGiven == \E i \in DOMAIN argv : argv[i] \in {OptF, OptForce}

ConfirmQuestion == L("question", "Do you want to remove it and continue?")
Removed == L("success", "Removed existing directory")

\* C1: if the clone command fails the run terminates with exit code 1 and
\* no later step is attempted: no manifest rewrite, no dependency install,
\* no version-control init, no summary; the target directory stays as the
\* clone left it (absent or partial).
C1_CloneFailureIsFatal ==
    cloneResult.error = "Failed to clone repository" =>
        /\ pc = "exited"
        /\ exitCode = 1
        /\ steps[Len(steps)] = "clone"
        /\ ~InSteps("manifest") /\ ~InSteps("install")
        /\ ~InSteps("gitinit") /\ ~InSteps("summary")
        /\ ~Ran("git", "project")
        /\ \A n \in PMNames : ~Ran(n, "project")
        /\ ~InOut(L("success", "Updated package.json"))
        /\ ~InOut(L("info", "Success! Your Stacks dapp is ready!"))
        /\ dir \in {AbsentDir, PartialDir}

C1_Witness ==
    /\ pc = "exited"
    /\ exitCode = 1
    /\ cloneResult.error = "Failed to clone repository"
    /\ dir = PartialDir

\* C2: when the clone succeeds but removing the cloned .git directory fails,
\* the failure is soft: the run is not aborted and goes on to the manifest
\* rewrite, the install, the version-control init and the summary.
C2_GitRemovalFailureIsSoft ==
    cloneResult.error = "Failed to remove .git folder" =>
        /\ pc # "exited"
        /\ exitCode # 1

\* C3: when the target directory exists and the force flag is set, the run
\* removes the directory without ever asking the confirmation question and
\* proceeds to template selection.
C3_ForceRemovesWithoutPrompt ==
    (ForceGiven /\ Exists(dir0) /\ InSteps("collision")) =>
        /\ Count(ConfirmQuestion) = 0
        /\ pc # "confirm"
        /\ answer = <<>>
        /\ Count(Removed) = 1
        /\ pc = "select" \/ InSteps("select")
        /\ pc = "select" => dir = AbsentDir /\ prompts = 0

C3_Witness ==
    /\ ForceGiven
    /\ Exists(dir0)
    /\ pc = "select"
    /\ dir = AbsentDir
    /\ InOut(Removed)

\* the answer, trimmed and lower-cased, equals 'y' or 'yes'
Affirmative(a) == ToLowerCase(Trim(a)) \in {<<"y">>, <<"y","e","s">>}

\* C4: when the target directory exists and the force flag is not set, the
\* run asks exactly one confirmation question; it removes the directory and
\* proceeds iff the answer, trimmed and lower-cased, is 'y' or 'yes'; for
\* every other answer it exits with code 1 and the directory is untouched.
C4_ConfirmDecides ==
    (~ForceGiven /\ Exists(dir0) /\ InSteps("collision")) =>
        /\ Count(ConfirmQuestion) = 1
        /\ pc # "confirm" =>
              IF Affirmative(answer)
              THEN /\ Count(Removed) = 1
                   /\ pc = "select" \/ InSteps("select")
                   /\ pc = "select" => dir = AbsentDir
              ELSE /\ pc = "exited"
                   /\ exitCode = 1
                   /\ dir = dir0
                   /\ Count(Removed) = 0
                   /\ steps[Len(steps)] = "collision"

C4_Witness ==
    /\ ~ForceGiven
    /\ Exists(dir0)
    /\ pc = "exited"
    /\ answer = <<"y", "e">>
    /\ dir = dir0
    /\ exitCode = 1

\* C5: whenever -h or --help is among the arguments the run prints usage
\* and exits with code 0 before anything else: no probe, no template load,
\* no name validation, no prompt, no filesystem change.
C5_HelpShortCircuits ==
    (HelpGiven /\ pc # "start") =>
        /\ pc = "exited"
        /\ exitCode = 0
        /\ steps = <<"parse">>
        /\ out = <<L("info", "usage")>>
        /\ cmds = <<>>
        /\ requirements = NoRequirements
        /\ templates = <<>>
        /\ projectName = <<>>
        /\ prompts = 0
        /\ dir = dir0

C5_Witness ==
    /\ pc = "exited"
    /\ exitCode = 0
    /\ Len(argv) = 2
    /\ argv[1] = DotEnv
    /\ argv[2] = OptH
    /\ ~env.node
    /\ Exists(dir0)

AllPresent == env.node /\ env.git /\ env.pms # {}

\* C6 as stated: whenever -l or --list is given without the help flag the
\* run prints the catalog and exits with code 0 before any other state
\* runs, for every outcome of the requirement probes.
C6_ListShortCircuitsAlways ==
    (ListGiven /\ ~HelpGiven /\ pc # "start") =>
        /\ pc = "exited"
        /\ exitCode = 0
        /\ cmds = <<>>

\* C6 amended: with -l or --list and no help flag the run first probes the
\* requirements; if one is absent it exits with code 1; otherwise it loads
\* the templates, prints the catalog and exits with code 0 before name
\* validation, any prompt or any filesystem change, with or without a
\* project-name argument.
C6_ListAfterRequirements ==
    (ListGiven /\ ~HelpGiven) =>
        /\ pc \in {"start", "probe", "load", "exited"}
        /\ projectName = <<>>
        /\ prompts = 0
        /\ dir = dir0
        /\ pc = "exited" =>
              IF AllPresent
              THEN /\ exitCode = 0
                   /\ steps = <<"parse", "probe", "load">>
                   /\ \A i \in DOMAIN BUILT_IN_TEMPLATES :
                         InOut(L("list", BUILT_IN_TEMPLATES[i].name))
                   /\ ErrorsReported = <<>>
              ELSE /\ exitCode = 1
                   /\ steps = <<"parse", "probe">>
                   /\ Len(ErrorsReported) = 1

C6_Witness ==
    /\ pc = "exited"
    /\ exitCode = 0
    /\ argv = <<MyDapp, OptL>>
    /\ InOut(L("list", "Vite + React + Tailwind CSS"))
    /\ Exists(dir0)

\* C7: the three prerequisite checks are evaluated in the order runtime,
\* version-control client, package manager; the first absent one ends the
\* run with exit code 1 and it alone is reported; with all three present
\* the run continues to template loading.
C7_FirstMissingWins ==
    InSteps("probe") =>
        IF ~env.node
        THEN /\ pc = "exited" /\ exitCode = 1
             /\ ErrorsReported = <<L("error", "Node.js is required but not found")>>
        ELSE IF ~env.git
        THEN /\ pc = "exited" /\ exitCode = 1
             /\ ErrorsReported = <<L("error", "Git is required but not found")>>
        ELSE IF env.pms = {}
        THEN /\ pc = "exited" /\ exitCode = 1
             /\ ErrorsReported = <<L("error", "No package manager found")>>
        ELSE pc = "load" \/ InSteps("load")

C7_Witness ==
    /\ pc = "exited"
    /\ exitCode = 1
    /\ ~env.node /\ ~env.git /\ env.pms = {}
    /\ ErrorsReported = <<L("error", "Node.js is required but not found")>>

\* the first available candidate in the order bun, pnpm, yarn, npm
FirstByPriority(pms) ==
    IF "bun" \in pms THEN "bun"
    ELSE IF "pnpm" \in pms THEN "pnpm"
    ELSE IF "yarn" \in pms THEN "yarn"
    ELSE IF "npm" \in pms THEN "npm"
    ELSE "null"

\* C8: for every combination of available package managers the prober
\* selects the first available one in the order bun, pnpm, yarn, npm, and
\* none iff none is available; the selected one runs the install step and
\* is named in the summary.
C8_PackageManagerPriority ==
    InSteps("probe") =>
        /\ requirements.packageManager.name = FirstByPriority(env.pms)
        /\ requirements.packageManager = NoPM <=> env.pms = {}
        /\ \A i \in DOMAIN cmds :
              cmds[i].cwd = "project" /\ cmds[i].prog # "git" =>
                  /\ cmds[i].prog = FirstByPriority(env.pms)
                  /\ cmds[i].arg = "install"
        /\ InSteps("install") => Ran(FirstByPriority(env.pms), "project")
        /\ pc = "done" =>
              /\ InOut(L("next", FirstByPriority(env.pms)))
              /\ \A n \in PMNames \ {FirstByPriority(env.pms)} : ~InOut(L("next", n))

C8_Witness ==
    /\ pc = "done"
    /\ env.pms = {"npm", "yarn"}
    /\ requirements.packageManager.name = "yarn"
    /\ Ran("yarn", "project")
    /\ InOut(L("next", "yarn"))

AllowedChars == Range(Lower) \cup Range(Upper) \cup Range(Digits) \cup {"-", "_"}
Blank(n) == \A i \in DOMAIN n : n[i] \in Whitespace
EqualIgnoringCase(a, b) ==
    Len(a) = Len(b) /\ \A i \in DOMAIN a : ToLowerChar(a[i]) = ToLowerChar(b[i])
IsReserved(n) == \E i \in DOMAIN RESERVED_NAMES : EqualIgnoringCase(n, RESERVED_NAMES[i])

FirstFailingReason(n) ==
    IF Blank(n) THEN ReasonEmpty
    ELSE IF Len(n) > 214 THEN ReasonLength
    ELSE IF n[1] \in {".", "_"} THEN ReasonStart
    ELSE IF \E i \in DOMAIN n : n[i] \notin AllowedChars THEN ReasonChars
    ELSE IF IsReserved(n) THEN ReasonReserved
    ELSE NoReason

\* C9: validateProjectName returns valid exactly for names that are not
\* blank, at most 214 characters long, not starting with '.' or '_', made
\* only of [a-zA-Z0-9-_] and not case-insensitively equal to a reserved
\* name; for an invalid name it returns the reason of the first failing
\* check in that order, and only that one.
C9_NameValidation ==
    nameResult # Pending =>
        /\ nameResult.valid <=>
              /\ ~Blank(nameArg)
              /\ Len(nameArg) <= 214
              /\ nameArg[1] \notin {".", "_"}
              /\ \A i \in DOMAIN nameArg : nameArg[i] \in AllowedChars
              /\ ~IsReserved(nameArg)
        /\ nameResult.reason = FirstFailingReason(nameArg)
        /\ nameArg = MyApp1 => nameResult.valid
        /\ nameArg \in {NodeModules, NodeModulesUpper} => ~nameResult.valid

C9_Witness ==
    /\ nameArg = NodeModulesUpper
    /\ nameResult = [valid |-> FALSE, reason |-> ReasonReserved]

Updated == L("success", "Updated package.json")

\* the step from reading the manifest to a rewritten manifest
Rewrote == pc = "manifest" /\ pc' = "install" /\ out'[Len(out')] = Updated

\* every key of obj outside skip is in obj2 with the same value, and obj2
\* has no key that obj lacks except those in added
SameExcept(obj, obj2, skip, added) ==
    /\ (DOMAIN obj2) \ added = (DOMAIN obj) \ added
    /\ \A k \in (DOMAIN obj) \ skip : obj2[k] = obj[k]

\* C10 as stated: when the manifest exists and parses (to an object), the
\* rewritten manifest has name = project name, version '0.1.0' and no
\* postinstall script, and every other field is unchanged.
C10_RewriteStripsPostinstall ==
    [][(Rewrote /\ dir.file.kind = "object") =>
          /\ dir'.file.kind = "object"
          /\ HasKey(dir'.file.obj, "name") /\ dir'.file.obj.name = projectName
          /\ HasKey(dir'.file.obj, "version") /\ dir'.file.obj.version = "0.1.0"
          /\ HasKey(dir'.file.obj, "scripts") =>
                ~HasKey(dir'.file.obj.scripts, "postinstall")
          /\ SameExcept(dir.file.obj, dir'.file.obj,
                        {"name", "version", "scripts"}, {"name", "version"})
          /\ HasKey(dir.file.obj, "scripts") =>
                SameExcept(dir.file.obj.scripts, dir'.file.obj.scripts,
                           {"postinstall"}, {"postinstall"})
      ]_vars

\* C10 amended: when the manifest exists, parses to a JSON object and is
\* written back, the rewritten manifest has name = project name, version
\* '0.1.0' and no postinstall script with a truthy value (a postinstall
\* entry whose value is falsy, such as the empty string, is kept as it is),
\* and every other field is unchanged.
C10_RewriteStripsTruthyPostinstall ==
    [][(Rewrote /\ dir.file.kind = "object") =>
          /\ dir'.file.kind = "object"
          /\ HasKey(dir'.file.obj, "name") /\ dir'.file.obj.name = projectName
          /\ HasKey(dir'.file.obj, "version") /\ dir'.file.obj.version = "0.1.0"
          /\ SameExcept(dir.file.obj, dir'.file.obj,
                        {"name", "version", "scripts"}, {"name", "version"})
          /\ HasKey(dir.file.obj, "scripts") =>
                /\ SameExcept(dir.file.obj.scripts, dir'.file.obj.scripts,
                              {"postinstall"}, {"postinstall"})
                /\ HasKey(dir'.file.obj.scripts, "postinstall") <=>
                      /\ HasKey(dir.file.obj.scripts, "postinstall")
                      /\ ~Truthy(dir.file.obj.scripts.postinstall)
                /\ HasKey(dir'.file.obj.scripts, "postinstall") =>
                      dir'.file.obj.scripts.postinstall = dir.file.obj.scripts.postinstall
      ]_vars

C10_Witness ==
    /\ pc = "install"
    /\ out[Len(out)] = Updated
    /\ dir.file.kind = "object"
    /\ dir.file.obj.name = projectName
    /\ dir.file.obj.version = "0.1.0"
    /\ HasKey(dir.file.obj, "scripts")
    /\ HasKey(dir.file.obj.scripts, "postinstall")
    /\ HasKey(dir.file.obj.scripts, "dev")
    /\ HasKey(dir.file.obj, "dependencies")

----------------------------------------------------------------------------
(* Properties of the soft failures *)

NoManifestWarning == L("warning", "No package.json found in template")
ManifestError == L("error", "Failed to update package.json")
SuccessLine == L("info", "Success! Your Stacks dapp is ready!")
InstallError == L("error", "Failed to install dependencies")
GitInitError == L("error", "Failed to initialize git repository")

\* the commands run by git in the project directory, in order
IsProjectGit(c) == c.prog = "git" /\ c.cwd = "project"
GitRan == SelectSeq(cmds, IsProjectGit)

\* the run went through the install, the version-control init and the
\* summary and ended with exit code 0
CompletedAfterSoftFailure ==
    /\ exitCode = 0
    /\ InSteps("install") /\ InSteps("gitinit") /\ InSteps("summary")
    /\ Ran(requirements.packageManager.name, "project")
    /\ GitRan # <<>> /\ GitRan[1].arg = "init"
    /\ InOut(SuccessLine)

\* C11: if the manifest is absent from the cloned tree, or parsing or
\* writing it fails, the run is not aborted: it goes on to the install and
\* the version-control init and ends with the success summary and exit
\* code 0.
C11_ManifestFailureIsSoft ==
    (InOut(NoManifestWarning) \/ InOut(ManifestError)) =>
        /\ ~InOut(Updated)
        /\ pc \in {"install", "gitinit", "summary", "done"}
        /\ exitCode \in {NoExit, 0}
        /\ pc = "done" => CompletedAfterSoftFailure

C11_Witness ==
    /\ pc = "done"
    /\ InOut(ManifestError)
    /\ dir.file = GarbageFile
    /\ cloneResult.success
    /\ CompletedAfterSoftFailure

\* C12: a failing dependency install does not abort the run: the
\* version-control init is still attempted and the summary is reached with
\* exit code 0; the summary prints the manual-install instructions iff the
\* install step failed.
C12_InstallFailureIsSoft ==
    /\ InOut(InstallError) =>
          /\ ~dir.installed
          /\ pc \in {"gitinit", "summary", "done"}
          /\ exitCode \in {NoExit, 0}
          /\ pc = "done" => CompletedAfterSoftFailure
    /\ pc = "done" =>
          /\ InOut(L("manual", requirements.packageManager.name)) <=> InOut(InstallError)
          /\ InOut(L("warning", "Dependencies failed to install")) <=> InOut(InstallError)
          /\ InOut(InstallError) <=> ~dir.installed

C12_Witness ==
    /\ pc = "done"
    /\ exitCode = 0
    /\ InOut(InstallError)
    /\ InOut(L("manual", "pnpm"))
    /\ dir.dotgit = "committed"

\* s is the first n entries of t
IsPrefix(s, t) == Len(s) <= Len(t) /\ \A i \in DOMAIN s : s[i] = t[i]

GitArgs == [i \in DOMAIN GitRan |-> GitRan[i].arg]

\* C13: version-control init runs init, stage-all, commit in that order in
\* the target directory and stops at the first that fails, so no later
\* command runs after a failure; whichever fails, the run reaches the
\* summary and exits with code 0.
C13_GitInitStopsAtFirstFailure ==
    /\ IsPrefix(GitArgs, <<"init", "add .", "commit -m">>)
    /\ InSteps("gitinit") =>
          /\ GitRan # <<>>
          /\ pc \in {"summary", "done"}
          /\ exitCode \in {NoExit, 0}
          /\ pc = "done" => CompletedAfterSoftFailure
          /\ IF InOut(GitInitError)
             THEN /\ InOut(L("warning", GitArgs[Len(GitArgs)]))
                  /\ dir.dotgit = DotGitAfter("none", Len(GitArgs) - 1)
             ELSE /\ Len(GitArgs) = 3
                  /\ dir.dotgit = "committed"
    /\ ~InSteps("gitinit") => GitRan = <<>>

C13_Witness ==
    /\ pc = "done"
    /\ exitCode = 0
    /\ InOut(GitInitError)
    /\ GitArgs = <<"init", "add .">>
    /\ dir.dotgit = "init"
    /\ InOut(SuccessLine)

----------------------------------------------------------------------------
(* loadTemplates over every registry of the data model *)

\* template descriptors: each field present or empty, the URL parseable or not
TemplateDescriptors ==
    [name : {"", "A", "B"}, description : {"", "d"},
     repoUrl : {"", "not a url", ViteUrl}]

Registries == StringsUpTo(TemplateDescriptors, MaxRegistry)

\* the states in which main() reaches loadTemplates, for any registry
InitLoad ==
    /\ argv \in {<<MyDapp>>, <<OptList>>}
    /\ env \in {e \in Envs : e.node /\ e.git /\ e.pms = {"npm"} /\ ~e.ci}
    /\ dir0 = AbsentDir
    /\ dir = dir0
    /\ pc = "load"
    /\ exitCode = NoExit
    /\ projectName = <<>>
    /\ requirements = checkRequirements(env)
    /\ templates = <<>>
    /\ selectedTemplate = NoTemplate
    /\ cloneResult = [success |-> FALSE, error |-> "undefined"]
    /\ installSuccess = FALSE
    /\ answer = <<>>
    /\ line = <<>>
    /\ attempts = 0
    /\ steps = <<"parse", "probe">>
    /\ out = SpinnerLines("Checking system requirements...",
                          "success", "System requirements checked")
    /\ cmds = ProbeCmds
    /\ prompts = 0
    /\ registry \in Registries
    /\ thrown = NoError
    /\ spinner = WithSpinner(NoTimers, env)
    /\ nameArg = <<>>
    /\ nameResult = [valid |-> FALSE, reason |-> NoReason]

NextLoad == LoadTemplates

SpecLoad == InitLoad /\ [][NextLoad]_vars

\* non-empty name, description and repoUrl, and a parseable repoUrl
PassesValidation(t) ==
    /\ t.name # "" /\ t.description # "" /\ t.repoUrl # ""
    /\ t.repoUrl \in ParseableUrls

ValidIndices == {i \in DOMAIN registry : PassesValidation(registry[i])}

\* the k-th valid entry of the registry in declaration order
KthValid(k) ==
    registry[CHOOSE i \in ValidIndices : Cardinality({j \in ValidIndices : j < i}) = k - 1]

\* C14: loadTemplates returns exactly the registry entries that pass
\* validateTemplate, in declaration order; it raises the no-valid-templates
\* error iff no entry passes.
C14_LoadTemplatesFilters ==
    InSteps("load") =>
        /\ thrown = NoTemplatesError <=> ValidIndices = {}
        /\ thrown \in {NoError, NoTemplatesError}
        /\ thrown = NoTemplatesError =>
              /\ templates = <<>>
              /\ pc = "exited" /\ exitCode = 1
        /\ thrown = NoError =>
              /\ Len(templates) = Cardinality(ValidIndices)
              /\ \A k \in DOMAIN templates : templates[k] = KthValid(k)
              /\ Count(L("skipped", "Template repoUrl must be a valid URL"))
                 + Count(L("skipped", "Template must have name, description, and repoUrl"))
                 = Len(registry) - Len(templates)

C14_Witness ==
    /\ pc = "name"
    /\ thrown = NoError
    /\ Len(registry) = 2
    /\ registry[1].repoUrl = "not a url" /\ registry[1].name = "A"
    /\ registry[1].description = "d"
    /\ templates = <<registry[2]>>
    /\ registry[2].name = "B"

----------------------------------------------------------------------------
(* Where the run can end *)

CloneRan == \E i \in DOMAIN cmds : cmds[i].prog = "git" /\ cmds[i].arg = "clone --depth 1"

\* an operation that changes the filesystem has been executed: the removal
\* of the existing directory, or the clone command
FsMutationDone == InOut(Removed) \/ CloneRan

LastStep == steps[Len(steps)]

----------------------------------------------------------------------------
(* selectTemplate over every menu and every short line *)

MaxTemplates == 2
MaxLineLen == 2

LineAlphabet == {"0", "1", "2", "x", "-", "+", " "}

\* every line of at most MaxLineLen characters the user may type
TypedLines == StringsUpTo(LineAlphabet, MaxLineLen)

\* the lists loadTemplates can hand to selectTemplate
Menus ==
    {m \in StringsUpTo({t \in TemplateDescriptors : validateTemplate(t).valid},
                       MaxTemplates) : m # <<>>}

\* the states in which main() calls selectTemplate
InitSelect ==
    /\ argv = <<MyDapp>>
    /\ env = [node |-> TRUE, git |-> TRUE, pms |-> PMNames, tty |-> TRUE, ci |-> FALSE]
    /\ dir0 = AbsentDir
    /\ dir = dir0
    /\ pc = "select"
    /\ exitCode = NoExit
    /\ projectName = MyDapp
    /\ requirements = checkRequirements(env)
    /\ templates \in Menus
    /\ selectedTemplate = NoTemplate
    /\ cloneResult = [success |-> FALSE, error |-> "undefined"]
    /\ installSuccess = FALSE
    /\ answer = <<>>
    /\ line = <<>>
    /\ attempts = 0
    /\ steps = <<"parse", "probe", "load", "name", "collision">>
    /\ out = <<>>
    /\ cmds = ProbeCmds
    /\ prompts = 0
    /\ registry = templates
    /\ thrown = NoError
    /\ spinner = WithSpinner(NoTimers, env)
    /\ nameArg = <<>>
    /\ nameResult = [valid |-> FALSE, reason |-> NoReason]

SelectTemplateTyped == SelectTemplateChoiceFrom(TypedLines)

NextSelect ==
    \/ SelectTemplateMenu
    \/ SelectTemplateTyped

SpecSelect == InitSelect /\ [][NextSelect]_vars

\* u is a decimal numeral of n, for 1 <= n <= 9: zeros, then the digit of n
DecimalOf(u, n) ==
    /\ u # <<>>
    /\ u[Len(u)] = Digits[n + 1]
    /\ \A i \in 1..(Len(u) - 1) : u[i] = "0"

Unsigned(t) == IF t # <<>> /\ t[1] = "+" THEN Tail(t) ELSE t

\* the whole line, surrounding blanks aside, is an integer numeral of n
ParsesAsInteger(l, n) == DecimalOf(Unsigned(Trim(l)), n)

\* the line, surrounding blanks aside, begins with an integer numeral of n
\* that no further digit follows
BeginsWithInteger(l, n) ==
    LET u == Unsigned(Trim(l))
    IN \E k \in 1..Len(u) :
         /\ DecimalOf(SubSeq(u, 1, k), n)
         /\ k = Len(u) \/ ~IsDigit(u[k + 1])

\* selectTemplate returned the n-th template of the list it was given
ReturnedTemplate(n) ==
    /\ pc' = "clone"
    /\ selectedTemplate' = templates[n]
    /\ UNCHANGED <<templates, exitCode>>

\* the error was reported and the question asked again, nothing else changed
Reprompted ==
    /\ pc' = "choose"
    /\ out' = out \o <<L("error", "Invalid choice"), L("question", "Enter your choice")>>
    /\ prompts' = prompts + 1
    /\ UNCHANGED <<argv, env, dir0, dir, exitCode, projectName, requirements,
                   templates, selectedTemplate, cloneResult, installSuccess,
                   answer, steps, cmds, registry, thrown, spinner>>

\* C16 as stated: selectTemplate returns only when the entered line parses
\* as an integer n with 1 <= n <= len(templates), and then returns the n-th
\* template; every other line reports an error and re-prompts with no other
\* effect, and never ends the loop.
C16_ReturnsOnlyOnInteger ==
    [][pc = "choose" =>
         IF \E n \in 1..Len(templates) : ParsesAsInteger(line', n)
         THEN \E n \in 1..Len(templates) :
                 ParsesAsInteger(line', n) /\ ReturnedTemplate(n)
         ELSE Reprompted]_vars

\* C16: selectTemplate returns only when the entered line, surrounding
\* blanks aside, begins with an integer n (an optional sign and digits,
\* whatever follows the digits being ignored) with 1 <= n <= len(templates),
\* and then returns the n-th template; every other line reports an error and
\* re-prompts with no other effect, and never ends the loop.
C16_ReturnsOnIntegerPrefix ==
    [][pc = "choose" =>
         IF \E n \in 1..Len(templates) : BeginsWithInteger(line', n)
         THEN \E n \in 1..Len(templates) :
                 BeginsWithInteger(line', n) /\ ReturnedTemplate(n)
         ELSE Reprompted]_vars

C16_Witness ==
    /\ pc = "clone"
    /\ attempts = 1
    /\ Len(templates) = 2
    /\ templates[1] # templates[2]
    /\ line = <<"2", "x">>
    /\ selectedTemplate = templates[2]
    /\ Count(L("error", "Invalid choice")) = 1

----------------------------------------------------------------------------
(* The order of the steps *)

StepSequence ==
    <<"probe", "load", "name", "collision", "select", "clone", "manifest",
      "install", "gitinit", "summary">>

\* the steps executed so far, the parsing of the arguments aside
Executed == IF steps = <<>> THEN <<>> ELSE Tail(steps)

\* C17: in every run the executed steps form a prefix of the sequence probe
\* requirements, load templates, validate name, handle collision, select
\* template, clone, rewrite manifest, install dependencies, init version
\* control, summary: none runs before its predecessor, none is skipped and
\* none runs twice; the only repetition is the re-prompt inside the template
\* selection.
C17_StepsFormPrefix ==
    /\ steps # <<>> => steps[1] = "parse"
    /\ IsPrefix(Executed, StepSequence)
    /\ Count(L("question", "Enter your choice")) =
           IF InSteps("select") THEN attempts + 1 ELSE 0

C17_Witness ==
    /\ pc = "done"
    /\ Executed = StepSequence
    /\ attempts = 1
    /\ Count(L("question", "Enter your choice")) = 2

----------------------------------------------------------------------------
(* handleError over every error main() can reject with *)

MaxExitCode == 2

\* the values main().catch can receive: a CLIError, another Error (which
\* may carry a code and an exitCode of its own, as the errors of fs do),
\* or a value that is not an Error
Errors ==
    [class : {"CLIError", "Error", "value"},
     message : {"No valid templates found", "Directory is not writable"},
     code : {"GENERAL_ERROR", "NO_TEMPLATES", "EACCES"},
     exitCode : 0..MaxExitCode]

InitError ==
    /\ argv = <<MyDapp>>
    /\ env = [node |-> TRUE, git |-> TRUE, pms |-> PMNames, tty |-> TRUE, ci |-> FALSE]
    /\ dir0 = AbsentDir
    /\ dir = dir0
    /\ pc = "catch"
    /\ exitCode = NoExit
    /\ projectName = <<>>
    /\ requirements = checkRequirements(env)
    /\ templates = <<>>
    /\ selectedTemplate = NoTemplate
    /\ cloneResult = [success |-> FALSE, error |-> "undefined"]
    /\ installSuccess = FALSE
    /\ answer = <<>>
    /\ line = <<>>
    /\ attempts = 0
    /\ steps = <<"parse", "probe">>
    /\ out = <<>>
    /\ cmds = ProbeCmds
    /\ prompts = 0
    /\ registry = BUILT_IN_TEMPLATES
    /\ thrown \in Errors
    /\ spinner = WithSpinner(NoTimers, env)
    /\ nameArg = <<>>
    /\ nameResult = [valid |-> FALSE, reason |-> NoReason]

\* main().catch 491-493: the rejection is handed to handleError
HandleError ==
    /\ pc = "catch"
    /\ LET h == handleError(thrown)
       IN Exit(h.exitCode, h.out)
    /\ UNCHANGED <<argv, env, dir0, dir, projectName, requirements, templates,
                   selectedTemplate, cloneResult, installSuccess, answer, line,
                   attempts, steps, cmds, prompts, nameVars, registry, thrown,
                   spinner>>

NextError == HandleError

SpecError == InitError /\ [][NextError]_vars

Structured == thrown.class = "CLIError"
CodeLine == L("dim", thrown.code)

\* C18: the top-level handler terminates the process for every error it
\* receives; a structured error exits with its own declared exit code and
\* prints the diagnostic code line if and only if its code is not the
\* generic default; any unclassified error exits with code 1.
C18_HandlerExitCodes ==
    /\ pc = "catch" => ENABLED HandleError
    /\ pc = "exited" =>
         IF Structured
         THEN /\ exitCode = thrown.exitCode
              /\ InOut(CodeLine) <=> thrown.code # "GENERAL_ERROR"
         ELSE exitCode = 1

C18_Witness ==
    /\ pc = "exited"
    /\ Structured
    /\ thrown.code = "NO_TEMPLATES"
    /\ thrown.exitCode = 2
    /\ exitCode = 2
    /\ InOut(CodeLine)

----------------------------------------------------------------------------
(* The spinner timers *)

\* the output is a terminal and no CI variable is set
InteractiveContext == env.tty /\ ~env.ci

\* the steps that start a spinner
SpinnerSteps == {"probe", "clone", "install", "gitinit"}

\* C19: a spinner timer is created only in an interactive context, and every
\* step that starts a spinner stops it on each of its return paths; hence no
\* spinner timer is active while the flow waits for a line of input, when the
\* next step starts, or when the run terminates.
C19_NoTimerOutlivesItsStep ==
    /\ spinner.active = 0
    /\ spinner.created =
         IF InteractiveContext
         THEN Cardinality({s \in SpinnerSteps : InSteps(s)})
         ELSE 0

C19_Witness ==
    /\ pc = "done"
    /\ InteractiveContext
    /\ prompts = 2
    /\ ~installSuccess
    /\ spinner = [active |-> 0, created |-> 4]

====
